---- MODULE Spec2Model ----
(***************************************************************************)
(* rentahuman-py: the blocking client (client.py, on requests) and the     *)
(* non-blocking client (async_client.py, on httpx).  A call to a resource  *)
(* operation validates its path parameters, builds a request, runs the     *)
(* attempt loop of _request against a server that answers each attempt,    *)
(* and parses what _request returned.                                      *)
(*                                                                         *)
(* Durations are in milliseconds.  Identifiers are sequences of            *)
(* characters, so that the path-parameter check reads them as the code     *)
(* does.  JSON objects and keyword arguments are sets of <<key, value>>    *)
(* pairs, with values kept as the text of their JSON form.  The pydantic   *)
(* models (models.py) are tables of fields: name, alias and default.       *)
(***************************************************************************)
EXTENDS Integers, Sequences, FiniteSets, TLC

\* ------------------------------------------------------------------ bounds

\* Largest max_retries a client is constructed with.
MaxRetries == 3
\* Longest caller-supplied identifier, in characters.
MaxIdLen == 2
\* The longest list of items a response carries.
MaxItems == 2

\* ------------------------------------------------------------- constants

\* RateLimitError's default retry_after and the default of headers.get:
\* 1.0 s.
DEFAULT_RETRY_AFTER == 1000
\* The linear backoff unit of the transport-failure branch: 0.5 s.
BACKOFF_UNIT == 500
\* search_humans' bounds on limit.
LIMIT_MIN == 1
LIMIT_MAX == 500
\* The default of every limit parameter.
DEFAULT_LIMIT == 20

\* The default of the constructors' timeout, in seconds.
DEFAULT_TIMEOUT == 30

Clients == {"sync", "async"}

\* The calls in flight: one on each client, and a second one on the
\* non-blocking client, running concurrently with the first.
Calls == Clients \cup {"async2"}

ClientOf(call) == IF call = "sync" THEN "sync" ELSE "async"

\* ------------------------------------------------------------ identifiers

Chars == {"a", ".", "/", "\\"}

SeqsUpTo(S, n) == UNION {[1..k -> S] : k \in 0..n}

Ids == SeqsUpTo(Chars, MaxIdLen)

\* Python's `sub in value` for a one-character sub.
Contains(value, ch) == \E i \in 1..Len(value) : value[i] = ch

\* Python's `".." in value`.
ContainsDotDot(value) ==
    \E i \in 1..(Len(value) - 1) : value[i] = "." /\ value[i + 1] = "."

\* A variant of the rule without the test for two dots.
sanitize_rejects_no_dotdot(value) ==
    \/ value = <<>>
    \/ Contains(value, "/")
    \/ Contains(value, "\\")

\* _sanitize_path_param raises RentAHumanError('Invalid path parameter')
\* exactly when this holds; otherwise it returns value unchanged.
sanitize_rejects(value) ==
    \/ value = <<>>
    \/ Contains(value, "/")
    \/ Contains(value, "\\")
    \/ ContainsDotDot(value)

\* --------------------------------------------------------------- responses

\* What the server (or the network) answers to one attempt.  kind is
\* "http" for a response with a status code and "transport" for a failure
\* the HTTP library raises as its own exception (requests.RequestException,
\* httpx.HTTPError): connection error, timeout, protocol error.
\*
\* retry_after is the text of the Retry-After header, "absent" when the
\* response has none.  body.fmt is the shape of the content: "object" (a
\* JSON object), "array" (JSON, but not an object), "text" (not JSON) or
\* "empty" (no content).  body.error is the object's "error" field, "absent"
\* when it has none.  body.valid says whether the payload passes the
\* entity models' validation.  reason is the HTTP reason phrase.

RetryAfterHeaders == {"absent", "2", "Wed, 21 Oct 2015 07:28:00 GMT"}

ErrorStatuses == {400, 500}

Body(fmt, error, valid) == [fmt |-> fmt, error |-> error, valid |-> valid]

NoBody == Body("empty", "absent", FALSE)

Response(kind, status, retry_after, body, reason) ==
    [kind |-> kind, status |-> status, retry_after |-> retry_after,
     body |-> body, reason |-> reason]

TransportFailures == {Response("transport", 0, "absent", NoBody, "")}

RateLimitResponses ==
    {Response("http", 429, h, Body("object", "Rate limited", FALSE), "Too Many Requests") :
        h \in RetryAfterHeaders}

ErrorBodies ==
    {Body("object", "Not found", FALSE), Body("object", "absent", FALSE),
     Body("empty", "absent", FALSE), Body("text", "absent", FALSE),
     Body("array", "absent", FALSE)}

\* The reason phrase may be empty; it is read only as the fallback message.
ErrorResponses ==
    {Response("http", s, "absent", b, "Error") : s \in ErrorStatuses, b \in ErrorBodies}
    \cup {Response("http", s, "absent", b, "") :
            s \in ErrorStatuses,
            b \in {Body("object", "absent", FALSE), Body("empty", "absent", FALSE)}}

SuccessBodies ==
    {Body("object", "absent", TRUE), Body("object", "absent", FALSE),
     Body("array", "absent", TRUE), Body("text", "absent", FALSE),
     Body("empty", "absent", FALSE)}

SuccessResponses ==
    {Response("http", 200, "absent", b, "OK") : b \in SuccessBodies}

Responses ==
    TransportFailures \cup RateLimitResponses \cup ErrorResponses \cup SuccessResponses

\* ----------------------------------------------------------------- results

\* How a call ends: kind is "ok" or the class of the exception that
\* escapes; status is the exception's status_code (0 for None); retry_after
\* is RateLimitError.retry_after; msg is the exception's message;
\* value is the body returned; entities are the id and name of the
\* entities an operation made of it, in order.
Result(kind, status, retry_after, msg, value) ==
    [kind |-> kind, status |-> status, retry_after |-> retry_after,
     msg |-> msg, value |-> value, entities |-> <<>>]

NoResult == Result("none", 0, 0, "", NoBody)

Returned(body) == Result("ok", 0, 0, "", body)

\* RentAHumanError(message, status_code=None)
RentAHumanError(msg, status) == Result("RentAHumanError", status, 0, msg, NoBody)

\* RateLimitError(retry_after): status_code is always 429.
RateLimitError(retry_after) ==
    Result("RateLimitError", 429, retry_after, "Rate limited", NoBody)

\* An exception of a class the client does not define.
Escaped(class) == Result(class, 0, 0, "", NoBody)

\* --------------------------------------------------------------- _request

\* What float() makes of a text it accepts: the seconds, as milliseconds.
FloatMs(text) ==
    CASE text = "2" -> 2000
      [] text = "1.0" -> DEFAULT_RETRY_AFTER

\* float() raises ValueError on a text that is not a number.
FloatRaises(text) == text \notin {"2", "1.0"}

\* resp.headers.get("Retry-After", 1.0): the header's text, or the default.
RetryAfterText(resp) ==
    IF resp.retry_after = "absent" THEN "1.0" ELSE resp.retry_after

\* f"HTTP {resp.status_code}"
HttpMsg(status) ==
    CASE status = 400 -> "HTTP 400"
      [] status = 500 -> "HTTP 500"
      [] OTHER -> "HTTP"

\* resp.json() raises on content that is not JSON (no content included).
JsonRaises(body) == body.fmt \in {"text", "empty"}

\* One step of the attempt loop decides one of: "sleep" (then continue with
\* the next attempt), "raise" or "return".
Sleep(ms) == [next |-> "sleep", ms |-> ms, result |-> NoResult]
Raise(result) == [next |-> "raise", ms |-> 0, result |-> result]
Return(body) == [next |-> "return", ms |-> 0, result |-> Returned(body)]

\* A mutation of the backoff: the attempt index is used as it is.
OnTransportErrorBackoffFromZero(max_retries, attempt) ==
    IF attempt < max_retries
    THEN Sleep(BACKOFF_UNIT * attempt)
    ELSE Raise(RentAHumanError("Request failed", 0))

\* A variant of the except branch that sleeps and continues on the last
\* attempt too.
OnTransportErrorAlwaysRetry(max_retries, attempt) ==
    Sleep(BACKOFF_UNIT * (attempt + 1))

\* The except branch: `except requests.RequestException` /
\* `except httpx.HTTPError`.
OnTransportError(max_retries, attempt) ==
    IF attempt < max_retries
    THEN Sleep(BACKOFF_UNIT * (attempt + 1))
    ELSE Raise(RentAHumanError("Request failed", 0))

\* resp.json() failed.  requests raises requests.exceptions.JSONDecodeError,
\* a RequestException, which the except branch of the blocking client
\* catches; httpx raises json.JSONDecodeError, a ValueError, which is not an
\* httpx.HTTPError and escapes.
OnJsonError(client, max_retries, attempt) ==
    IF client = "sync"
    THEN OnTransportError(max_retries, attempt)
    ELSE Raise(Escaped("JSONDecodeError"))

\* The 429 branch:
\*   retry_after = float(resp.headers.get("Retry-After", 1.0))
\*   if attempt < self.max_retries: sleep(retry_after); continue
\*   raise RateLimitError(retry_after)
\* float() is outside any handler of ValueError.
OnRateLimited(resp, max_retries, attempt) ==
    IF FloatRaises(RetryAfterText(resp))
    THEN Raise(Escaped("ValueError"))
    ELSE IF attempt < max_retries
    THEN Sleep(FloatMs(RetryAfterText(resp)))
    ELSE Raise(RateLimitError(FloatMs(RetryAfterText(resp))))

\* The status >= 400 branch:
\*   body = resp.json() if resp.content else {}
\*   error_msg = body.get("error", resp.reason or f"HTTP {status}")
OnErrorStatus(client, resp, max_retries, attempt) ==
    LET fallback == IF resp.reason # "" THEN resp.reason ELSE HttpMsg(resp.status)
    IN  CASE resp.body.fmt = "empty" ->
                Raise(RentAHumanError(fallback, resp.status))
          [] resp.body.fmt = "text" ->
                OnJsonError(client, max_retries, attempt)
          [] resp.body.fmt = "array" ->
                Raise(Escaped("AttributeError"))
          [] OTHER ->
                Raise(RentAHumanError(
                    IF resp.body.error # "absent" THEN resp.body.error ELSE fallback,
                    resp.status))

\* The body of the for loop, for the answer resp to this attempt's request.
HandleResponse(client, resp, max_retries, attempt) ==
    IF resp.kind = "transport"
    THEN OnTransportError(max_retries, attempt)
    ELSE IF resp.status = 429
    THEN OnRateLimited(resp, max_retries, attempt)
    ELSE IF resp.status >= 400
    THEN OnErrorStatus(client, resp, max_retries, attempt)
    ELSE IF JsonRaises(resp.body)
    THEN OnJsonError(client, max_retries, attempt)
    ELSE Return(resp.body)

\* ------------------------------------------------------------ entity models

\* A field of a pydantic model: its internal name, its alias (the internal
\* name where none is declared) and its default as text, REQUIRED for a
\* field without one.  Values are kept as the text of their JSON form.
REQUIRED == "<required>"

NONE == "null"

Field(name, alias, default) == [name |-> name, alias |-> alias, default |-> default]

HumanFields ==
    {Field("id", "id", "\"\""), Field("name", "name", "\"\""),
     Field("location", "location", NONE), Field("rate", "rate", NONE),
     Field("skills", "skills", "[]"), Field("bio", "bio", NONE),
     Field("availability", "availability", NONE),
     Field("crypto_wallets", "cryptoWallets", "[]"),
     Field("rating", "rating", NONE),
     Field("completed_tasks", "completedTasks", NONE),
     Field("created_at", "createdAt", NONE)}

BookingCreateFields ==
    {Field("human_id", "humanId", REQUIRED),
     Field("agent_id", "agentId", "\"rentahuman-py\""),
     Field("task_title", "taskTitle", REQUIRED),
     Field("start_time", "startTime", REQUIRED),
     Field("estimated_hours", "estimatedHours", REQUIRED),
     Field("description", "description", NONE)}

BookingFields ==
    {Field("id", "id", "\"\""), Field("human_id", "humanId", "\"\""),
     Field("agent_id", "agentId", "\"\""), Field("task_title", "taskTitle", "\"\""),
     Field("status", "status", "\"pending\""),
     Field("start_time", "startTime", NONE),
     Field("estimated_hours", "estimatedHours", NONE),
     Field("created_at", "createdAt", NONE)}

BountyCreateFields ==
    {Field("agent_type", "agentType", "\"rentahuman-py\""),
     Field("title", "title", REQUIRED), Field("description", "description", REQUIRED),
     Field("estimated_hours", "estimatedHours", NONE),
     Field("price_type", "priceType", "\"fixed\""), Field("price", "price", "0.0"),
     Field("skills", "skills", "[]"), Field("location", "location", NONE)}

BountyApplicationFields ==
    {Field("id", "id", "\"\""), Field("bounty_id", "bountyId", "\"\""),
     Field("human_id", "humanId", "\"\""), Field("human_name", "humanName", "\"\""),
     Field("message", "message", "\"\""), Field("rate", "rate", NONE),
     Field("status", "status", "\"pending\""),
     Field("created_at", "createdAt", NONE)}

BountyFields ==
    {Field("id", "id", "\"\""), Field("title", "title", "\"\""),
     Field("description", "description", "\"\""),
     Field("agent_type", "agentType", "\"\""),
     Field("estimated_hours", "estimatedHours", NONE),
     Field("price_type", "priceType", "\"fixed\""), Field("price", "price", "0.0"),
     Field("status", "status", "\"open\""),
     Field("application_count", "applicationCount", "0"),
     Field("created_at", "createdAt", NONE)}

MessageFields ==
    {Field("id", "id", "\"\""), Field("conversation_id", "conversationId", "\"\""),
     Field("sender", "sender", "\"\""), Field("content", "content", "\"\""),
     Field("created_at", "createdAt", NONE)}

ConversationFields ==
    {Field("id", "id", "\"\""), Field("human_id", "humanId", "\"\""),
     Field("agent_type", "agentType", "\"\""), Field("subject", "subject", "\"\""),
     Field("messages", "messages", "[]"), Field("created_at", "createdAt", NONE)}

\* CryptoWallet, the model of the objects in Human.crypto_wallets; the
\* objects in Conversation.messages are Messages.
CryptoWalletFields == {Field("chain", "chain", "\"\""), Field("address", "address", "\"\"")}

\* The models that declare an alias for at least one field.
Models ==
    {"Human", "BookingCreate", "Booking", "BountyCreate", "BountyApplication",
     "Bounty", "Message", "Conversation"}

Fields(model) ==
    CASE model = "Human" -> HumanFields
      [] model = "BookingCreate" -> BookingCreateFields
      [] model = "Booking" -> BookingFields
      [] model = "BountyCreate" -> BountyCreateFields
      [] model = "BountyApplication" -> BountyApplicationFields
      [] model = "Bounty" -> BountyFields
      [] model = "Message" -> MessageFields
      [] model = "Conversation" -> ConversationFields
      [] model = "CryptoWallet" -> CryptoWalletFields

\* A JSON object, or the keyword arguments of a constructor, is a set of
\* <<key, value>> pairs with no key twice.
Keys(data) == {p[1] : p \in data}

ValueOf(data, key) == CHOOSE v \in {p[2] : p \in data} : <<key, v>> \in data

\* The value of a list field that holds one object, kept beside the data
\* that holds the list.
OBJECTS == "[<object>]"

\* The model of the objects in a model's list field, list[CryptoWallet] or
\* list[Message], and the wire name of that field.
NestedModel(model) ==
    CASE model = "Human" -> "CryptoWallet"
      [] model = "Conversation" -> "Message"
      [] OTHER -> "none"

NestedField(model) ==
    CASE model = "Human" -> "cryptoWallets"
      [] model = "Conversation" -> "messages"
      [] OTHER -> "none"

\* A variant that reads internal names only (no alias lookup).
FieldValueByNameOnly(f, data) ==
    IF f.name \in Keys(data) THEN ValueOf(data, f.name)
    ELSE f.default

\* populate_by_name: a field is read under its alias, else under its
\* internal name, else it takes its default.
FieldValue(f, data) ==
    IF f.alias \in Keys(data) THEN ValueOf(data, f.alias)
    ELSE IF f.name \in Keys(data) THEN ValueOf(data, f.name)
    ELSE f.default

\* Only the fields declared `... | None` accept a null: in these models,
\* the fields whose default is None.
Nullable(f) == f.default = NONE

\* Model.model_validate(data) and Model(**data): the entity, as the values of
\* its fields by internal name; keys that name no field are ignored; a
\* required field without a value, or a null in a field that is not
\* nullable, raises pydantic's ValidationError (ok is FALSE).
Construct(model, data) ==
    LET values == {<<f.name, FieldValue(f, data)>> : f \in Fields(model)}
        bad == {f \in Fields(model) :
                   \/ FieldValue(f, data) = REQUIRED
                   \/ FieldValue(f, data) = NONE /\ ~Nullable(f)}
    IN  [ok |-> bad = {}, values |-> IF bad = {} THEN values ELSE {}]

\* entity.model_dump(by_alias=..., exclude_none=...): every field of the
\* model, those holding None left out under exclude_none.
Dump(model, entity, by_alias, exclude_none) ==
    {<<IF by_alias THEN f.alias ELSE f.name, ValueOf(entity.values, f.name)>> :
        f \in {g \in Fields(model) :
                  ~(exclude_none /\ ValueOf(entity.values, g.name) = NONE)}}

\* The data holds an object in the model's list field (under the alias or
\* the internal name).
HoldsObject(model, data) ==
    \E f \in Fields(model) :
        f.alias = NestedField(model) /\ FieldValue(f, data) = OBJECTS

\* Validation of data whose list field may hold the object `nested`: the
\* object is validated with its own model, and the whole fails when the
\* object does.
ConstructNested(model, data, nested) ==
    LET top == Construct(model, data)
        inner == IF HoldsObject(model, data)
                 THEN Construct(NestedModel(model), nested)
                 ELSE [ok |-> TRUE, values |-> {}]
        ok == top.ok /\ inner.ok
    IN  [ok |-> ok,
         values |-> IF ok THEN top.values ELSE {},
         nested |-> IF ok THEN inner.values ELSE {}]

\* model_dump serialises the object in the list field with the same
\* by_alias and exclude_none.
DumpNested(model, entity, by_alias, exclude_none) ==
    IF <<NestedField(model), OBJECTS>> \in Dump(model, entity, TRUE, exclude_none)
    THEN Dump(NestedModel(model), [ok |-> TRUE, values |-> entity.nested],
              by_alias, exclude_none)
    ELSE {}

\* ------------------------------------------------------ resource operations

PathOps ==
    {"get_human", "get_reviews", "get_booking", "get_bounty",
     "get_bounty_applications", "update_bounty", "send_message",
     "get_conversation"}

TwoIdOps == {"accept_application"}

LimitOps == {"search_humans", "list_bookings", "list_bounties", "list_conversations"}

OtherOps == {"list_skills", "create_booking", "create_bounty", "start_conversation"}

Ops == PathOps \cup TwoIdOps \cup LimitOps \cup OtherOps

Limits == {0 - 10000, 0 - 1, 0, 1, 2, 20, 499, 500, 501, 10000}

Offsets == {0 - 1, 0, 5}

\* An optional argument is the set of its value: {} for None.
Absent == {}

\* Python's truth of an optional text: neither None nor the empty text.
Truthy(opt) == opt # {} /\ opt # {""}

\* As Truthy, for a test written `is not None`.
IsNotNone(opt) == opt # {}

\* The optional filters of search_humans (skill, min_rate, max_rate, name)
\* and list_bookings (human_id, agent_id, status).
Filters(skill, min_rate, max_rate, name, human_id, agent_id, status) ==
    [skill |-> skill, min_rate |-> min_rate, max_rate |-> max_rate, name |-> name,
     human_id |-> human_id, agent_id |-> agent_id, status |-> status]

NoFilters == Filters(Absent, Absent, Absent, Absent, Absent, Absent, Absent)

\* The keyword arguments a write operation is called with when the caller
\* passes the required ones only: of the BookingCreate or BountyCreate
\* handed to the create operations, of start_conversation and send_message;
\* for update_bounty, the `updates` dict.
RequiredKwargs(op) ==
    CASE op = "create_booking" ->
            {<<"human_id", "\"h1\"">>, <<"task_title", "\"Pick up\"">>,
             <<"start_time", "\"2026-03-01T10:00:00Z\"">>, <<"estimated_hours", "2.0">>}
      [] op = "create_bounty" ->
            {<<"title", "\"Survey\"">>, <<"description", "\"Count cars\"">>}
      [] op = "start_conversation" ->
            {<<"human_id", "\"h1\"">>, <<"subject", "\"Hello\"">>, <<"message", "\"Hi\"">>}
      [] op = "send_message" -> {<<"message", "\"Hi\"">>}
      [] op = "update_bounty" -> {<<"status", "\"closed\"">>}
      [] OTHER -> {}

\* A call: the operation and its arguments.
InputWith(op, id1, id2, limit, offset, filters, kwargs) ==
    [op |-> op, id1 |-> id1, id2 |-> id2, limit |-> limit, offset |-> offset,
     filters |-> filters, kwargs |-> kwargs]

\* A call without filters and with the required keyword arguments only.
Input(op, id1, id2, limit, offset) ==
    InputWith(op, id1, id2, limit, offset, NoFilters, RequiredKwargs(op))

Max(a, b) == IF a >= b THEN a ELSE b

Min(a, b) == IF a <= b THEN a ELSE b

\* A mutation of the clamp: the lower bound is left out.
ClampLimitNoFloor(limit) == Min(limit, LIMIT_MAX)

\* max(1, min(limit, 500))
ClampLimit(limit) == Max(LIMIT_MIN, Min(limit, LIMIT_MAX))

\* The HTTP method each operation's helper (_get, _post, _patch) passes.
Method(op) ==
    CASE op \in {"create_booking", "create_bounty", "accept_application",
                 "start_conversation", "send_message"} -> "POST"
      [] op = "update_bounty" -> "PATCH"
      [] OTHER -> "GET"

\* The path each operation formats, as its segments.
Path(in) ==
    CASE in.op = "search_humans" -> <<"humans">>
      [] in.op = "get_human" -> <<"humans", in.id1>>
      [] in.op = "list_skills" -> <<"skills">>
      [] in.op = "get_reviews" -> <<"humans", in.id1, "reviews">>
      [] in.op = "create_booking" -> <<"bookings">>
      [] in.op = "get_booking" -> <<"bookings", in.id1>>
      [] in.op = "list_bookings" -> <<"bookings">>
      [] in.op = "create_bounty" -> <<"bounties">>
      [] in.op = "get_bounty" -> <<"bounties", in.id1>>
      [] in.op = "list_bounties" -> <<"bounties">>
      [] in.op = "get_bounty_applications" -> <<"bounties", in.id1, "applications">>
      [] in.op = "accept_application" ->
            <<"bounties", in.id1, "applications", in.id2, "accept">>
      [] in.op = "update_bounty" -> <<"bounties", in.id1>>
      [] in.op = "start_conversation" -> <<"conversations">>
      [] in.op = "send_message" -> <<"conversations", in.id1, "messages">>
      [] in.op = "get_conversation" -> <<"conversations", in.id1>>
      [] in.op = "list_conversations" -> <<"conversations">>

\* `if value: params[key] = value`
ParamIfTruthy(key, opt) == IF Truthy(opt) THEN {<<key, v>> : v \in opt} ELSE {}

\* A variant of the rate filters that tests the value's truth: 0 is dropped.
ParamIfNonZero(key, opt) == IF opt \notin {{}, {0}} THEN {<<key, v>> : v \in opt} ELSE {}

\* `if value is not None: params[key] = value`
ParamIfNotNone(key, opt) == IF IsNotNone(opt) THEN {<<key, v>> : v \in opt} ELSE {}

\* The query parameters each operation builds, as key/value pairs.
Params(in) ==
    CASE in.op = "search_humans" ->
            {<<"limit", ClampLimit(in.limit)>>, <<"offset", Max(0, in.offset)>>}
            \cup ParamIfTruthy("skill", in.filters.skill)
            \cup ParamIfNotNone("minRate", in.filters.min_rate)
            \cup ParamIfNotNone("maxRate", in.filters.max_rate)
            \cup ParamIfTruthy("name", in.filters.name)
      [] in.op = "list_bookings" ->
            {<<"limit", in.limit>>}
            \cup ParamIfTruthy("humanId", in.filters.human_id)
            \cup ParamIfTruthy("agentId", in.filters.agent_id)
            \cup ParamIfTruthy("status", in.filters.status)
      [] in.op \in {"list_bounties", "list_conversations"} ->
            {<<"limit", in.limit>>}
      [] OTHER -> {}

\* The json argument of _post and _patch: None (present is FALSE) or a JSON
\* object.
NoJson == [present |-> FALSE, fields |-> {}]

Json(fields) == [present |-> TRUE, fields |-> fields]

\* agent_type: str = "rentahuman-py"
AgentType(kwargs) ==
    IF "agent_type" \in Keys(kwargs) THEN ValueOf(kwargs, "agent_type")
    ELSE "\"rentahuman-py\""

\* A variant of the bodies in which the client names the new entity itself.
JsonBodyWithLocalId(in) ==
    IF in.op \in {"create_booking", "create_bounty", "start_conversation"}
    THEN Json({<<"id", "\"local-1\"">>} \cup in.kwargs)
    ELSE NoJson

\* The body each operation hands to _post or _patch.
JsonBody(in) ==
    CASE in.op = "create_booking" ->
            Json(Dump("BookingCreate", Construct("BookingCreate", in.kwargs), TRUE, TRUE))
      [] in.op = "create_bounty" ->
            Json(Dump("BountyCreate", Construct("BountyCreate", in.kwargs), TRUE, TRUE))
      [] in.op = "update_bounty" -> Json(in.kwargs)
      [] in.op = "start_conversation" ->
            Json({<<"humanId", ValueOf(in.kwargs, "human_id")>>,
                  <<"agentType", AgentType(in.kwargs)>>,
                  <<"subject", ValueOf(in.kwargs, "subject")>>,
                  <<"message", ValueOf(in.kwargs, "message")>>})
      [] in.op = "send_message" ->
            Json({<<"message", ValueOf(in.kwargs, "message")>>})
      [] OTHER -> NoJson

\* A request: what the operation builds (method, path, params, json) and
\* what the session adds when it sends it (base_url, headers, timeout).
Request(method, path, params, json) ==
    [method |-> method, path |-> path, params |-> params, json |-> json,
     base_url |-> <<>>, headers |-> {}, timeout |-> 0]

NoRequest == Request("", <<>>, {}, NoJson)

BuildRequest(in) == Request(Method(in.op), Path(in), Params(in), JsonBody(in))

\* The operations that hand a caller-supplied identifier to
\* _sanitize_path_param before formatting the path, and whether one is
\* rejected.
PathParamRejected(in) ==
    \/ in.op \in PathOps /\ sanitize_rejects(in.id1)
    \/ in.op \in TwoIdOps /\ (sanitize_rejects(in.id1) \/ sanitize_rejects(in.id2))

\* What a successful body carries.  The server keeps a list of items for
\* the endpoint, each a JSON object with an id and a name or a bare string
\* (the name); `keyed` says whether it wraps the payload under the
\* endpoint's key ({"humans": [...]}, {"human": {...}}).  A body of fmt
\* "object" is that wrapper when keyed, and otherwise the first item itself
\* (the bare entity; {} when there is none).  A body of fmt "array" is the
\* bare list of items.
Item(shape, id, name) == [shape |-> shape, id |-> id, name |-> name]

Items ==
    {Item("object", "h1", "n1"), Item("object", "h2", "n2"),
     Item("string", "", "n1"), Item("string", "", "n2")}

Server(keyed, items) == [keyed |-> keyed, items |-> items]

DefaultServer == Server(TRUE, <<Item("object", "h1", "n1")>>)

Servers == {Server(k, l) : k \in BOOLEAN, l \in SeqsUpTo(Items, MaxItems)}

\* The id and name a model instance takes from an item.
Entity(item) == [id |-> item.id, name |-> item.name]

EntitiesOf(items) == [i \in DOMAIN items |-> Entity(items[i])]

IsStr(item) == item.shape = "string"

ListOps ==
    {"search_humans", "list_bookings", "list_bounties", "get_bounty_applications",
     "list_conversations"}

Returning(body, entities) == [Returned(body) EXCEPT !.entities = entities]

\* A variant of the list comprehension that walks the list backwards.
ValidateAllReversed(body, lst) ==
    IF lst # <<>> /\ (~body.valid \/ \E i \in DOMAIN lst : IsStr(lst[i]))
    THEN Escaped("pydantic.ValidationError")
    ELSE Returning(body, EntitiesOf([i \in DOMAIN lst |-> lst[Len(lst) + 1 - i]]))

\* [Model.model_validate(x) for x in lst]: a string is no model instance,
\* and a payload with a field of the wrong type fails validation.
ValidateAll(body, lst) ==
    IF lst # <<>> /\ (~body.valid \/ \E i \in DOMAIN lst : IsStr(lst[i]))
    THEN Escaped("pydantic.ValidationError")
    ELSE Returning(body, EntitiesOf(lst))

\* list_skills:
\*   raw = data.get("skills", data)
\*   if raw and isinstance(raw[0], str): return [Skill(name=s) for s in raw]
\*   return [Skill.model_validate(s) for s in raw]
\* Without the key, raw is the body itself, a dict: raw[0] looks up the key
\* 0 and raises KeyError unless the dict is empty, which iterates to [].
ParseSkills(body, server) ==
    IF ~server.keyed
    THEN IF server.items # <<>> /\ ~IsStr(server.items[1])
         THEN Escaped("KeyError")
         ELSE Returning(body, <<>>)
    ELSE IF server.items = <<>> THEN Returning(body, <<>>)
    ELSE IF IsStr(server.items[1])
    THEN IF \A i \in DOMAIN server.items : IsStr(server.items[i])
         THEN Returning(body, EntitiesOf(server.items))
         ELSE Escaped("pydantic.ValidationError")
    ELSE IF ~body.valid \/ \E i \in DOMAIN server.items : IsStr(server.items[i])
    THEN Escaped("pydantic.ValidationError")
    ELSE Returning(body, [i \in DOMAIN server.items |->
                             [id |-> "", name |-> server.items[i].name]])

\* Model.model_validate(data.get(key, data)): the entity under the key, or
\* the body itself.
ParseEntity(body, server) ==
    IF server.items = <<>> THEN Returning(body, <<[id |-> "", name |-> ""]>>)
    ELSE IF server.keyed /\ IsStr(server.items[1])
    THEN Escaped("pydantic.ValidationError")
    ELSE IF IsStr(server.items[1]) THEN Returning(body, <<[id |-> "", name |-> ""]>>)
    ELSE IF ~body.valid THEN Escaped("pydantic.ValidationError")
    ELSE Returning(body, <<Entity(server.items[1])>>)

\* What the operation makes of the body _request returned.
\* accept_application returns it as it is; every other operation calls
\* data.get on it, which a JSON value that is no object does not have;
\* get_reviews returns the list unvalidated; the others validate the payload
\* with the entity model.
ParseResult(op, body, server) ==
    IF op = "accept_application" THEN Returned(body)
    ELSE IF body.fmt # "object" THEN Escaped("AttributeError")
    ELSE IF op = "get_reviews"
    THEN Returning(body, IF server.keyed THEN EntitiesOf(server.items) ELSE <<>>)
    ELSE IF op = "list_skills" THEN ParseSkills(body, server)
    ELSE IF op \in ListOps
    THEN ValidateAll(body, IF server.keyed THEN server.items ELSE <<>>)
    ELSE ParseEntity(body, server)

\* ---------------------------------------------------------------- session

\* The constructor's arguments: api_key (optional), base_url (its
\* characters), timeout and max_retries.
CtorArgs(api_key, base_url, timeout, retries) ==
    [api_key |-> api_key, base_url |-> base_url, timeout |-> timeout,
     max_retries |-> retries]

\* base_url.rstrip("/")
RECURSIVE RStripSlash(_)
RStripSlash(url) ==
    IF url # <<>> /\ url[Len(url)] = "/"
    THEN RStripSlash(SubSeq(url, 1, Len(url) - 1))
    ELSE url

\* `if api_key: headers["X-API-Key"] = api_key`
KeyHeader(api_key) ==
    IF Truthy(api_key) THEN {<<"X-API-Key", k>> : k \in api_key} ELSE {}

\* What __init__ keeps: base_url, timeout and the default headers of the
\* requests.Session / httpx.AsyncClient (max_retries is the variable of
\* that name).
NewSession(args) ==
    [base_url |-> RStripSlash(args.base_url),
     timeout |-> args.timeout,
     headers |-> {<<"Content-Type", "application/json">>} \cup KeyHeader(args.api_key)]

\* url = f"{self.base_url}{path}" and the request's timeout are fixed when
\* _request is entered.
Bind(session, req) ==
    [req EXCEPT !.base_url = session.base_url, !.timeout = session.timeout]

\* A path segment that is a caller's identifier "." (the segments the
\* operations write themselves are not).
IsDotSegment(seg) == seg \in Seq(Chars) /\ seg = <<".">>

\* The library normalises the URL before the request goes out: it removes
\* the path's "." segments.  requests (urllib3, RFC 3986 5.2.4) leaves the
\* slash before a final "." in place, an empty last segment; httpx joins
\* the remaining segments, so nothing is left of it.
RemoveDotSegments(client, path) ==
    LET kept == SelectSeq(path, LAMBDA seg : ~IsDotSegment(seg))
    IN  IF client = "sync" /\ path # <<>> /\ IsDotSegment(path[Len(path)])
        THEN Append(kept, <<>>)
        ELSE kept

\* A variant of the sending in which the default headers are not attached.
SendBare(client, session, req) ==
    [req EXCEPT !.path = RemoveDotSegments(client, req.path)]

\* self._session.request(method, url, **kwargs) /
\* self._client.request(method, path, **kwargs): the session merges its
\* default headers into each request it sends, and sends it to the
\* normalised URL.
Send(client, session, req) ==
    [req EXCEPT !.headers = session.headers,
                !.path = RemoveDotSegments(client, req.path)]

DefaultBaseUrl == <<"u">>

DefaultCtor(retries) == CtorArgs({"rah_key"}, DefaultBaseUrl, DEFAULT_TIMEOUT, retries)

\* ------------------------------------------------------- LangChain toolkit

\* The name of each tool class, in the order get_tools lists them.
SearchToolNames == <<"search_humans", "get_human_profile", "get_reviews", "list_skills">>

BookingToolNames == <<"create_booking", "get_booking", "list_bookings">>

BountyToolNames ==
    <<"create_bounty", "get_bounty", "get_bounty_applications", "accept_application">>

ConversationToolNames ==
    <<"start_conversation", "send_message", "get_conversation", "list_conversations">>

\* A variant of get_tools' list without the conversation tools' last.
AllToolNamesButLast ==
    SearchToolNames \o BookingToolNames \o BountyToolNames
    \o SubSeq(ConversationToolNames, 1, 3)

AllToolNames ==
    SearchToolNames \o BookingToolNames \o BountyToolNames \o ConversationToolNames

\* The toolkit's methods and the tool classes each instantiates.
Getters == {"get_tools", "get_search_tools", "get_booking_tools", "get_bounty_tools"}

ToolNames(getter) ==
    CASE getter = "get_tools" -> AllToolNames
      [] getter = "get_search_tools" -> SearchToolNames
      [] getter = "get_booking_tools" -> BookingToolNames
      [] getter = "get_bounty_tools" -> BountyToolNames

\* SomeTool(client=c)
Tool(name, client) == [name |-> name, client |-> client]

\* c = self.client; return [SomeTool(client=c), ...]
GetToolsOf(kit, getter) ==
    [i \in DOMAIN ToolNames(getter) |-> Tool(ToolNames(getter)[i], kit.client)]

\* The toolkit instances.
Toolkits == {"t1", "t2"}

\* RentAHumanToolkit(api_key, base_url): self.client =
\* RentAHumanClient(api_key=api_key, base_url=base_url), an object of its
\* own (`of`), with the constructor's default timeout and max_retries.
NewToolkit(t, api_key, base_url) ==
    [client |-> [of |-> t,
                 session |-> NewSession(CtorArgs(api_key, base_url, DEFAULT_TIMEOUT, 3))],
     returned |-> [g \in Getters |-> <<>>]]

\* No toolkit is in use.
NoToolkits == [t \in Toolkits |-> NewToolkit("", Absent, <<>>)]

\* ------------------------------------------------------------------ state

VARIABLES
    max_retries,  \* self.max_retries, the same for both clients
    active,       \* the clients on which the call is made
    input,        \* the operation called and its arguments
    served,       \* the server's answers, by attempt: the same for both clients
    pc,           \* per client: "idle", "loop", "waiting", "sleeping", "done"
    attempt,      \* per client: the loop index of _request
    request,      \* per client: the request the operation built
    events,       \* per client: the requests sent and the sleeps, in order
    req_result,   \* per client: how _request ended
    result,       \* per client: how the operation ended
    ctor,         \* the arguments the clients were constructed with
    session,      \* self.base_url, self.timeout and the session's default headers
    server,       \* the payload the server holds for the endpoint called
    answers,      \* per call: the answers it received, by attempt
    models,       \* an entity model's round trip (see RoundTrip below)
    completed,    \* the number of operations that have ended and been left
    toolkit       \* per LangChain toolkit: its client and the tools it returned

vars ==
    <<max_retries, active, input, served, pc, attempt, request, events, req_result,
      result, ctor, session, server, answers, models, completed, toolkit>>

\* What no step of a call writes.
fixed == <<max_retries, active, ctor, session, server, models, completed, toolkit>>

RequestEvent(req) == [type |-> "request", ms |-> 0, req |-> req]

SleepEvent(ms) == [type |-> "sleep", ms |-> ms, req |-> NoRequest]

\* The requests sent so far and the sleeps so far.
Requests(c) == SelectSeq(events[c], LAMBDA e : e.type = "request")

Sleeps(c) == SelectSeq(events[c], LAMBDA e : e.type = "sleep")

\* for attempt in range(self.max_retries + 1)
LoopHasNext(retries, k) == k < retries + 1

\* No round trip is under way.
NoRoundTrip == [step |-> "off", model |-> "", wire |-> {}, nested |-> {},
                dumped |-> {}, nested_dumped |-> {},
                by_name |-> [ok |-> FALSE, values |-> {}, nested |-> {}],
                by_alias |-> [ok |-> FALSE, values |-> {}, nested |-> {}]]

InitCalls ==
    /\ served = <<>>
    /\ pc = [c \in Calls |-> "idle"]
    /\ attempt = [c \in Calls |-> 0]
    /\ request = [c \in Calls |-> NoRequest]
    /\ events = [c \in Calls |-> <<>>]
    /\ req_result = [c \in Calls |-> NoResult]
    /\ result = [c \in Calls |-> NoResult]
    /\ answers = [c \in Calls |-> <<>>]
    /\ completed = 0

\* The clients are constructed with one of `ctors`, the server holds one of
\* `servers`, and one of `inputs` is called on the clients of one of
\* `actives`.
InitWith(actives, inputs, ctors, servers) ==
    /\ ctor \in ctors
    /\ max_retries = ctor.max_retries
    /\ session = NewSession(ctor)
    /\ server \in servers
    /\ active \in actives
    /\ input \in inputs
    /\ models = NoRoundTrip
    /\ toolkit = NoToolkits
    /\ InitCalls

\* The operation is entered: the path parameters are checked, and the
\* request is built and handed to _request.
Call(c) ==
    /\ c \in active
    /\ pc[c] = "idle"
    /\ IF PathParamRejected(input)
       THEN /\ pc' = [pc EXCEPT ![c] = "done"]
            /\ result' = [result EXCEPT ![c] = RentAHumanError("Invalid path parameter", 0)]
            /\ UNCHANGED request
       ELSE /\ pc' = [pc EXCEPT ![c] = "loop"]
            /\ request' = [request EXCEPT ![c] = Bind(session, BuildRequest(input))]
            /\ UNCHANGED result
    /\ UNCHANGED <<fixed, input, served, attempt, events, req_result, answers>>

\* A pass through the loop body begins: the request goes out,
\*   resp = self._session.request(method, url, **kwargs)
\*   resp = await self._client.request(method, path, **kwargs)
\* and the call is suspended until the answer arrives (the coroutine yields
\* to the event loop, the thread blocks in the socket), so other calls take
\* steps while this request is in flight.
SendRequest(c) ==
    /\ pc[c] = "loop"
    /\ LoopHasNext(max_retries, attempt[c])
    /\ events' = [events EXCEPT ![c] =
                      Append(events[c],
                             RequestEvent(Send(ClientOf(c), session, request[c])))]
    /\ pc' = [pc EXCEPT ![c] = "waiting"]
    /\ UNCHANGED <<fixed, input, served, attempt, request, req_result, result, answers>>

\* The rest of the pass: the server's answer resp to the request in flight
\* arrives and is handled up to the sleep, the raise or the return (and
\* then the operation's parsing of what was returned).
ReceiveWith(c, resp) ==
    LET d == HandleResponse(ClientOf(c), resp, max_retries, attempt[c])
    IN  /\ served' = IF c \in Clients /\ Len(served) <= attempt[c]
                      THEN Append(served, resp)
                      ELSE served
        /\ answers' = [answers EXCEPT ![c] = Append(answers[c], resp)]
        /\ CASE d.next = "sleep" ->
                  /\ events' = [events EXCEPT ![c] = Append(events[c], SleepEvent(d.ms))]
                  /\ pc' = [pc EXCEPT ![c] = "sleeping"]
                  /\ UNCHANGED <<req_result, result>>
             [] d.next = "raise" ->
                  /\ pc' = [pc EXCEPT ![c] = "done"]
                  /\ req_result' = [req_result EXCEPT ![c] = d.result]
                  /\ result' = [result EXCEPT ![c] = d.result]
                  /\ UNCHANGED events
             [] d.next = "return" ->
                  /\ pc' = [pc EXCEPT ![c] = "done"]
                  /\ req_result' = [req_result EXCEPT ![c] = d.result]
                  /\ result' = [result EXCEPT ![c] =
                                    ParseResult(input.op, d.result.value, server)]
                  /\ UNCHANGED events
        /\ UNCHANGED <<fixed, input, attempt, request>>

Receive(c) ==
    /\ pc[c] = "waiting"
    /\ IF c \in Clients /\ Len(served) > attempt[c]
       THEN ReceiveWith(c, served[attempt[c] + 1])
       ELSE \E resp \in Responses : ReceiveWith(c, resp)

\* A mutation of the retry: the loop index is not advanced.
WakeSameAttempt(c) ==
    /\ pc[c] = "sleeping"
    /\ pc' = [pc EXCEPT ![c] = "loop"]
    /\ UNCHANGED <<fixed, input, served, attempt, request, events, req_result,
                   result, answers>>

\* A variant of the retry in which the loop index is an attribute of the
\* client, shared by the calls in flight.
WakeSharedIndex(c) ==
    /\ pc[c] = "sleeping"
    /\ pc' = [pc EXCEPT ![c] = "loop"]
    /\ attempt' = [d \in Calls |-> attempt[d] + 1]
    /\ UNCHANGED <<fixed, input, served, request, events, req_result, result, answers>>

\* A variant of the retry that spends the client's own budget:
\* self.max_retries -= 1.
WakeSpendsBudget(c) ==
    /\ pc[c] = "sleeping"
    /\ pc' = [pc EXCEPT ![c] = "loop"]
    /\ attempt' = [attempt EXCEPT ![c] = attempt[c] + 1]
    /\ max_retries' = max_retries - 1
    /\ UNCHANGED <<active, ctor, session, server, models, completed, toolkit, input, served,
                   request, events, req_result, result, answers>>

\* A variant of the retry that sends the body only with the first attempt.
WakeDropsBody(c) ==
    /\ pc[c] = "sleeping"
    /\ pc' = [pc EXCEPT ![c] = "loop"]
    /\ attempt' = [attempt EXCEPT ![c] = attempt[c] + 1]
    /\ request' = [request EXCEPT ![c].json = NoJson]
    /\ UNCHANGED <<fixed, input, served, events, req_result, result, answers>>

\* A variant of the retry made by calling _request again: the new call
\* starts at the first index with a budget of its own.
WakeRestarts(c) ==
    /\ pc[c] = "sleeping"
    /\ pc' = [pc EXCEPT ![c] = "loop"]
    /\ attempt' = [attempt EXCEPT ![c] = 0]
    /\ events' = [events EXCEPT ![c] = <<>>]
    /\ answers' = [answers EXCEPT ![c] = <<>>]
    /\ served' = <<>>
    /\ UNCHANGED <<fixed, input, request, req_result, result>>

\* The sleep is over: `continue` takes the loop to its next index.
Wake(c) ==
    /\ pc[c] = "sleeping"
    /\ pc' = [pc EXCEPT ![c] = "loop"]
    /\ attempt' = [attempt EXCEPT ![c] = attempt[c] + 1]
    /\ UNCHANGED <<fixed, input, served, request, events, req_result, result, answers>>

\* The loop ran out of indices: the raise after the loop.
LoopEnd(c) ==
    /\ pc[c] = "loop"
    /\ ~LoopHasNext(max_retries, attempt[c])
    /\ pc' = [pc EXCEPT ![c] = "done"]
    /\ req_result' = [req_result EXCEPT ![c] = RentAHumanError("Request failed after retries", 0)]
    /\ result' = [result EXCEPT ![c] = RentAHumanError("Request failed after retries", 0)]
    /\ UNCHANGED <<fixed, input, served, attempt, request, events, answers>>

Next ==
    \E c \in Calls :
        Call(c) \/ SendRequest(c) \/ Receive(c) \/ Wake(c) \/ LoopEnd(c)

DefaultId == <<"a">>

\* Calls whose path parameters pass and whose limit is the default: the
\* attempt loop is the same for every operation; the parsing differs.
RetryInputs ==
    {Input(op, DefaultId, DefaultId, DEFAULT_LIMIT, 0) :
        op \in {"search_humans", "get_human", "get_reviews", "accept_application"}}

\* Every operation, with every identifier and every limit.
OpInputs ==
    {Input(op, id, DefaultId, DEFAULT_LIMIT, 0) : op \in PathOps, id \in Ids}
    \cup {Input(op, id1, id2, DEFAULT_LIMIT, 0) : op \in TwoIdOps, id1 \in Ids, id2 \in Ids}
    \cup {Input(op, DefaultId, DefaultId, l, o) : op \in LimitOps, l \in Limits, o \in Offsets}
    \cup {Input(op, DefaultId, DefaultId, DEFAULT_LIMIT, 0) : op \in OtherOps}

\* One call, on either client, through the attempt loop.
Init ==
    InitWith({{c} : c \in Clients}, RetryInputs,
             {DefaultCtor(r) : r \in (0 - 1)..MaxRetries}, {DefaultServer})

Spec == Init /\ [][Next]_vars

\* Every attempt and every wait of a call in progress completes: the
\* request returns or raises within its timeout, the sleep ends, and the
\* loop goes on to its next step.
Progress == \A c \in Calls : WF_vars(SendRequest(c) \/ Receive(c) \/ Wake(c) \/ LoopEnd(c))

\* The largest max_retries of the calls checked for termination.
LiveRetries == 2

\* One call through the attempt loop, each of its steps completing.
InitLive ==
    InitWith({{c} : c \in Clients}, RetryInputs,
             {DefaultCtor(r) : r \in (0 - 1)..LiveRetries}, {DefaultServer})

SpecLive == InitLive /\ [][Next]_vars /\ Progress

\* One call of any operation with any arguments, on either client.
InitOps ==
    InitWith({{c} : c \in Clients}, OpInputs,
             {DefaultCtor(r) : r \in (0 - 1)..1}, {DefaultServer})

SpecOps == InitOps /\ [][Next]_vars

\* The same call on both clients, the server answering both alike.
InitPair ==
    InitWith({Clients}, RetryInputs,
             {DefaultCtor(r) : r \in (0 - 1)..MaxRetries}, {DefaultServer})

SpecPair == InitPair /\ [][Next]_vars

\* The values a text filter and a rate filter are called with: None, the
\* empty text or a text; None, 0 or a rate.
TextFilters == {Absent, {""}, {"x"}}

RateFilters == {Absent, {0}, {45}}

\* search_humans and list_bookings with every combination of filters.
QueryInputs ==
    {InputWith("search_humans", DefaultId, DefaultId, DEFAULT_LIMIT, 0,
               Filters(s, lo, hi, n, Absent, Absent, Absent), {}) :
        s \in TextFilters, lo \in RateFilters, hi \in RateFilters, n \in TextFilters}
    \cup {InputWith("list_bookings", DefaultId, DefaultId, DEFAULT_LIMIT, 0,
                    Filters(Absent, Absent, Absent, Absent, h, a, st), {}) :
            h \in TextFilters, a \in TextFilters, st \in TextFilters}

InitQuery ==
    InitWith({{c} : c \in Clients}, QueryInputs,
             {DefaultCtor(r) : r \in (0 - 1)..1}, {DefaultServer})

SpecQuery == InitQuery /\ [][Next]_vars

\* Every subset of a set of keyword arguments with no key twice.
Choices(pairs) == {d \in SUBSET pairs : \A p \in d, q \in d : p[1] = q[1] => p = q}

\* The write operations, called with the required arguments and every
\* choice of the optional ones, left unset, set to a value or set to None;
\* update_bounty with an empty dict, a value and a null.
WriteInputs ==
    {InputWith("create_booking", DefaultId, DefaultId, DEFAULT_LIMIT, 0, NoFilters,
               RequiredKwargs("create_booking") \cup opt) :
        opt \in Choices({<<"description", "\"Front desk\"">>, <<"description", NONE>>})}
    \cup {InputWith("create_bounty", DefaultId, DefaultId, DEFAULT_LIMIT, 0, NoFilters,
                    RequiredKwargs("create_bounty") \cup opt) :
            opt \in Choices({<<"estimated_hours", "1.5">>, <<"estimated_hours", NONE>>,
                             <<"skills", "[\"Counting\"]">>, <<"skills", "[]">>,
                             <<"location", "\"NYC\"">>, <<"location", NONE>>})}
    \cup {InputWith("update_bounty", DefaultId, DefaultId, DEFAULT_LIMIT, 0, NoFilters, u) :
            u \in Choices({<<"status", "\"closed\"">>, <<"location", NONE>>})}
    \cup {Input("accept_application", DefaultId, DefaultId, DEFAULT_LIMIT, 0)}

InitWrite ==
    InitWith({{c} : c \in Clients}, WriteInputs,
             {DefaultCtor(r) : r \in (0 - 1)..1}, {DefaultServer})

SpecWrite == InitWrite /\ [][Next]_vars

\* Operations that parse a list (list_skills, search_humans) or one entity
\* (get_human, create_booking), against every payload the server may hold.
ParseInputs ==
    {Input(op, DefaultId, DefaultId, DEFAULT_LIMIT, 0) :
        op \in {"list_skills", "search_humans", "get_human", "create_booking"}}

InitParse ==
    InitWith({{c} : c \in Clients}, ParseInputs,
             {DefaultCtor(r) : r \in (0 - 1)..1}, Servers)

SpecParse == InitParse /\ [][Next]_vars

\* The constructor's arguments: no key, an empty key or a key; a base URL
\* with and without a trailing slash; two timeouts.
ApiKeys == {Absent, {""}, {"rah_key"}}

BaseUrls == {DefaultBaseUrl, <<"u", "/">>}

Timeouts == {DEFAULT_TIMEOUT, 5}

Ctors(retries) ==
    {CtorArgs(k, u, t, r) : k \in ApiKeys, u \in BaseUrls, t \in Timeouts, r \in retries}

SessionInputs ==
    {Input(op, DefaultId, DefaultId, DEFAULT_LIMIT, 0) : op \in {"get_human", "create_booking"}}

\* The operations called one after another on the same clients.
MaxCalls == 2

\* The caller has the outcome of the operation and calls the next one: the
\* call's locals are gone, the client stays.
Again(c) ==
    /\ c \in active
    /\ \A d \in active : pc[d] = "done"
    /\ completed < MaxCalls
    /\ completed' = completed + 1
    /\ input' \in SessionInputs
    /\ served' = <<>>
    /\ pc' = [d \in Calls |-> "idle"]
    /\ attempt' = [d \in Calls |-> 0]
    /\ request' = [d \in Calls |-> NoRequest]
    /\ events' = [d \in Calls |-> <<>>]
    /\ req_result' = [d \in Calls |-> NoResult]
    /\ result' = [d \in Calls |-> NoResult]
    /\ answers' = [d \in Calls |-> <<>>]
    /\ UNCHANGED <<max_retries, active, ctor, session, server, models, toolkit>>

NextSession == Next \/ \E c \in Calls : Again(c)

InitSession ==
    InitWith({{c} : c \in Clients}, SessionInputs, Ctors((0 - 1)..1), {DefaultServer})

SpecSession == InitSession /\ [][NextSession]_vars

\* Two calls in flight on one AsyncRentAHumanClient, each answered on its
\* own, their steps interleaved at every await.
ConcurrentInputs ==
    {Input(op, DefaultId, DefaultId, DEFAULT_LIMIT, 0) : op \in {"get_human", "create_booking"}}

InitConcurrent ==
    InitWith({{"async", "async2"}}, ConcurrentInputs,
             {DefaultCtor(r) : r \in (0 - 1)..1}, {DefaultServer})

SpecConcurrent == InitConcurrent /\ [][Next]_vars

\* Everything but `toolkit`.
client_vars ==
    <<max_retries, active, input, served, pc, attempt, request, events, req_result,
      result, ctor, session, server, answers, models, completed>>

\* One of a toolkit's methods is called and returns its list of tools.
GetTools(t) ==
    /\ toolkit' = [toolkit EXCEPT
                      ![t].returned["get_tools"] = GetToolsOf(toolkit[t], "get_tools")]
    /\ UNCHANGED client_vars

GetSearchTools(t) ==
    /\ toolkit' = [toolkit EXCEPT
                      ![t].returned["get_search_tools"] =
                          GetToolsOf(toolkit[t], "get_search_tools")]
    /\ UNCHANGED client_vars

GetBookingTools(t) ==
    /\ toolkit' = [toolkit EXCEPT
                      ![t].returned["get_booking_tools"] =
                          GetToolsOf(toolkit[t], "get_booking_tools")]
    /\ UNCHANGED client_vars

GetBountyTools(t) ==
    /\ toolkit' = [toolkit EXCEPT
                      ![t].returned["get_bounty_tools"] =
                          GetToolsOf(toolkit[t], "get_bounty_tools")]
    /\ UNCHANGED client_vars

NextToolkit ==
    \E t \in Toolkits :
        GetTools(t) \/ GetSearchTools(t) \/ GetBookingTools(t) \/ GetBountyTools(t)

\* Two toolkits, constructed with a key or without.
InitToolkit ==
    /\ ctor = DefaultCtor(0)
    /\ max_retries = ctor.max_retries
    /\ session = NewSession(ctor)
    /\ server = DefaultServer
    /\ active = {}
    /\ input = Input("get_human", DefaultId, DefaultId, DEFAULT_LIMIT, 0)
    /\ models = NoRoundTrip
    /\ InitCalls
    /\ \E k1 \in ApiKeys, k2 \in ApiKeys :
           toolkit = [t \in Toolkits |->
                         NewToolkit(t, IF t = "t1" THEN k1 ELSE k2, DefaultBaseUrl)]

SpecToolkit == InitToolkit /\ [][NextToolkit]_vars

\* ------------------------------------------------------------- round trip

\* The most keys of a payload, the object in its list field included, that
\* carry null or name no field of the model.
MaxIrregular == 1

\* A key that names no field of any model.
UNKNOWN_KEY == "unknownKey"

\* A JSON object for a model: the fields `nulls` and `rest` under their
\* wire names (the aliases), those of `nulls` with null and those of `rest`
\* with a value of the field's type (OBJECTS in the list field of objects),
\* and the unknown key or not.
Object(model, nulls, rest, unknown) ==
    {<<f.alias, IF f \in nulls THEN NONE
                ELSE IF f.alias = NestedField(model) THEN OBJECTS
                ELSE "<value>">> : f \in nulls \cup rest}
    \cup (IF unknown THEN {<<UNKNOWN_KEY, "<value>">>} ELSE {})

\* The sets of fields that may carry null in an object with `irregular`
\* irregular keys: that many, or one fewer beside the unknown key.
NullSets(model, irregular) ==
    {ns \in SUBSET Fields(model) : irregular - Cardinality(ns) \in {0, 1}}

\* The objects nested in a payload's list field that has `irregular`
\* irregular keys left: the objects of the nested model with up to that
\* many; the empty set stands for no object.
NestedObjects(model, w, irregular) ==
    IF <<NestedField(model), OBJECTS>> \in w
    THEN UNION {UNION {{Object(NestedModel(model), ns, rest, Cardinality(ns) < j) :
                            rest \in SUBSET (Fields(NestedModel(model)) \ ns)} :
                        ns \in NullSets(NestedModel(model), j)} :
                   j \in 0..irregular}
    ELSE {{}}

\* The same data under the internal names: Model(**kwargs).  A key that
\* names no field stays as it is.
ByName(model, wire) ==
    IF model = "none" THEN wire
    ELSE {<<f.name, ValueOf(wire, f.alias)>> :
             f \in {g \in Fields(model) : g.alias \in Keys(wire)}}
         \cup {p \in wire : \A f \in Fields(model) : f.alias # p[1]}

\* Everything but `models`.
call_vars ==
    <<max_retries, active, input, served, pc, attempt, request, events, req_result,
      result, ctor, session, server, answers, completed, toolkit>>

\* The entity is constructed twice: from the payload as it is (aliases) and
\* from the same data under the internal names.
RoundTripConstruct ==
    /\ models.step = "wire"
    /\ models' = [models EXCEPT
                     !.step = "built",
                     !.by_alias = ConstructNested(models.model, models.wire, models.nested),
                     !.by_name = ConstructNested(models.model,
                                                 ByName(models.model, models.wire),
                                                 ByName(NestedModel(models.model),
                                                        models.nested))]
    /\ UNCHANGED call_vars

\* The entity built from the internal names is serialised with
\* model_dump(by_alias=True), with or without exclude_none.
RoundTripDump ==
    /\ models.step = "built"
    /\ models.by_name.ok
    /\ \E exclude_none \in BOOLEAN :
           models' = [models EXCEPT
                         !.step = IF exclude_none THEN "dumped_without_none" ELSE "dumped",
                         !.dumped = Dump(models.model, models.by_name, TRUE, exclude_none),
                         !.nested_dumped =
                             DumpNested(models.model, models.by_name, TRUE, exclude_none)]
    /\ UNCHANGED call_vars

\* A payload without a required field, or with a null in a field that does
\* not take one: pydantic's ValidationError.
RoundTripReject ==
    /\ models.step = "built"
    /\ ~models.by_name.ok
    /\ models' = [models EXCEPT !.step = "rejected"]
    /\ UNCHANGED call_vars

NextModels == RoundTripConstruct \/ RoundTripDump \/ RoundTripReject

InitModels ==
    /\ ctor = DefaultCtor(0)
    /\ max_retries = ctor.max_retries
    /\ session = NewSession(ctor)
    /\ server = DefaultServer
    /\ active = {}
    /\ input = Input("get_human", DefaultId, DefaultId, DEFAULT_LIMIT, 0)
    /\ InitCalls
    /\ toolkit = NoToolkits
    /\ \E m \in Models : \E i \in 0..MaxIrregular :
           \E nulls \in NullSets(m, i) : \E rest \in SUBSET (Fields(m) \ nulls) :
               LET w == Object(m, nulls, rest, Cardinality(nulls) < i)
               IN  \E n \in NestedObjects(m, w, MaxIrregular - i) :
                       models = [NoRoundTrip EXCEPT !.step = "wire", !.model = m,
                                                    !.wire = w, !.nested = n]

SpecModels == InitModels /\ [][NextModels]_vars

\* ----------------------------------------------------------------- claims

\* Client c has sent the request of attempt k (counted from 0) and handled
\* its answer, which is served[k + 1].
Handled(c, k) == Len(answers[c]) > k

\* While a call retries, its events alternate request, sleep, request, ...:
\* the request of attempt k is event 2k + 1 and the sleep after it 2k + 2.
SleepAfter(c, k) == events[c][2 * k + 2]

\* The identifiers the path-parameter rule rejects: empty, or with a
\* forward slash, a backslash or two dots in a row.
InvalidIdentifier(id) ==
    \/ Len(id) = 0
    \/ \E i \in DOMAIN id : id[i] \in {"/", "\\"}
    \/ \E i \in DOMAIN id : i > 1 /\ id[i - 1] = "." /\ id[i] = "."

InterpolatingOps ==
    {"get_human", "get_reviews", "get_booking", "get_bounty",
     "get_bounty_applications", "update_bounty", "send_message",
     "get_conversation", "accept_application"}

HasInvalidIdentifier(in) ==
    /\ in.op \in InterpolatingOps
    /\ \/ InvalidIdentifier(in.id1)
       \/ in.op = "accept_application" /\ InvalidIdentifier(in.id2)

\* C1: on either client, an operation that puts a caller-supplied
\* identifier into the path and is given an empty one, or one with '/',
\* '\' or '..', ends with the validation error and never sends a request;
\* for accept_application also when only the second identifier is invalid.
C1_InvalidPathParamFailsBeforeAnyRequest ==
    \A c \in active :
        (pc[c] # "idle" /\ HasInvalidIdentifier(input)) =>
            /\ pc[c] = "done"
            /\ result[c] = RentAHumanError("Invalid path parameter", 0)
            /\ events[c] = <<>>

\* accept_application was called with a valid bounty id and an
\* application id of '..', and ended.
C1_Witness ==
    \E c \in active :
        /\ pc[c] = "done"
        /\ input.op = "accept_application"
        /\ input.id1 = <<"a">>
        /\ input.id2 = <<".", ".">>
        /\ result[c].kind = "RentAHumanError"

\* C2: with max_retries = N >= 0, one call of _request sends at most N + 1
\* requests, whatever the server answers.
C2_AtMostMaxRetriesPlusOneRequests ==
    \A c \in active :
        max_retries >= 0 => Len(Requests(c)) <= max_retries + 1

\* A call that used its whole budget: every attempt but the last was
\* retried, and the last one failed.
C2_Witness ==
    \E c \in active :
        /\ max_retries = MaxRetries
        /\ pc[c] = "done"
        /\ Len(Requests(c)) = max_retries + 1
        /\ Len(Sleeps(c)) = max_retries
        /\ req_result[c].kind = "RateLimitError"

\* The answer to attempt k of the calls.
Answer(k) == served[k + 1]

IsStatus(resp) == resp.kind = "http"

\* The retry-after value the specification gives a 429 response, in
\* milliseconds: the header's seconds, and 1.0 s when the header is absent
\* or is not a number.
SpecifiedRetryAfter(resp) ==
    IF resp.retry_after = "2" THEN 2000 ELSE 1000

\* C3: a 429 with attempts left is followed by a sleep of that response's
\* Retry-After and then by the next attempt, whose index is one more; when
\* that attempt is answered with a status below 400 the call returns that
\* answer's body.
C3_RateLimitedSleepsThenRetries ==
    \A c \in active : \A k \in 0..MaxRetries :
        (k < max_retries /\ Handled(c, k) /\ IsStatus(Answer(k)) /\ Answer(k).status = 429) =>
            /\ Len(events[c]) >= 2 * k + 2
            /\ SleepAfter(c, k) = SleepEvent(SpecifiedRetryAfter(Answer(k)))
            /\ (pc[c] = "loop" /\ Len(events[c]) = 2 * k + 2) => attempt[c] = k + 1
            /\ Handled(c, k + 1) => events[c][2 * k + 3].type = "request"
            /\ (Handled(c, k + 1) /\ IsStatus(Answer(k + 1)) /\ Answer(k + 1).status < 400) =>
                    /\ pc[c] = "done"
                    /\ req_result[c] = Returned(Answer(k + 1).body)

\* C4: with max_retries = 0, a call whose one attempt is answered 429 ends
\* with RateLimitError after one request and no sleep.
C4_NoRetriesRateLimitedFailsAtOnce ==
    \A c \in active :
        (max_retries = 0 /\ Handled(c, 0) /\ IsStatus(Answer(0)) /\ Answer(0).status = 429) =>
            /\ pc[c] = "done"
            /\ req_result[c].kind = "RateLimitError"
            /\ events[c] = <<RequestEvent(Send(ClientOf(c), session, request[c]))>>

\* C5: an attempt answered with a status >= 400 other than 429 ends the
\* call with RentAHumanError carrying that status, with no sleep and no
\* further request, whatever the body is.
C5_ErrorStatusFailsImmediately ==
    \A c \in active : \A k \in 0..MaxRetries :
        (Handled(c, k) /\ IsStatus(Answer(k))
            /\ Answer(k).status >= 400 /\ Answer(k).status # 429) =>
            /\ pc[c] = "done"
            /\ req_result[c].kind = "RentAHumanError"
            /\ req_result[c].status = Answer(k).status
            /\ Len(events[c]) = 2 * k + 1

\* C6: an attempt k that ends in a transport failure is followed, when
\* k < max_retries, by a sleep of 0.5 * (k + 1) s and then by the next
\* attempt; otherwise the call ends, without a sleep, with RentAHumanError
\* 'Request failed' and no status code.
C6_TransportFailureBacksOffLinearly ==
    \A c \in active : \A k \in 0..MaxRetries :
        (Handled(c, k) /\ Answer(k).kind = "transport") =>
            IF k < max_retries
            THEN /\ Len(events[c]) >= 2 * k + 2
                 /\ SleepAfter(c, k) = SleepEvent(500 * (k + 1))
                 /\ (pc[c] = "loop" /\ Len(events[c]) = 2 * k + 2) => attempt[c] = k + 1
                 /\ pc[c] = "done" => Handled(c, k + 1)
            ELSE /\ pc[c] = "done"
                 /\ req_result[c] = RentAHumanError("Request failed", 0)
                 /\ Len(events[c]) = 2 * k + 1

\* Every attempt of a call with max_retries = 3 ended in a transport
\* failure: the sleeps were 0.5, 1.0 and 1.5 s and the fourth failure
\* ended the call.
C6_Witness ==
    \E c \in active :
        /\ max_retries = 3
        /\ pc[c] = "done"
        /\ \A k \in 0..3 : Answer(k).kind = "transport"
        /\ Sleeps(c) = <<SleepEvent(500), SleepEvent(1000), SleepEvent(1500)>>
        /\ Len(Requests(c)) = 4
        /\ req_result[c].msg = "Request failed"

\* C7: on every 429 the value slept for, and the value RateLimitError
\* carries, is the Retry-After header in seconds, and 1.0 when the header is
\* absent or is not a number.
C7_RetryAfterParsedOrDefault ==
    \A c \in active : \A k \in 0..MaxRetries :
        (Handled(c, k) /\ IsStatus(Answer(k)) /\ Answer(k).status = 429) =>
            IF k < max_retries
            THEN /\ Len(events[c]) >= 2 * k + 2
                 /\ SleepAfter(c, k) = SleepEvent(SpecifiedRetryAfter(Answer(k)))
            ELSE /\ pc[c] = "done"
                 /\ req_result[c] = RateLimitError(SpecifiedRetryAfter(Answer(k)))

\* C8: a call of a resource operation ends with a parsed result, with
\* RateLimitError (status 429) or with RentAHumanError: the validation
\* error and the transport error without a status code, the API error with
\* the status of the response.  No exception of another class escapes.
C8_OnlyTheSpecifiedOutcomes ==
    \A c \in active :
        pc[c] = "done" =>
            \/ result[c].kind = "ok"
            \/ result[c].kind = "RateLimitError" /\ result[c].status = 429
            \/ result[c].kind = "RentAHumanError"
                /\ result[c].status \in {0} \cup ErrorStatuses

\* C9: when the same call, answered alike, has ended on both clients, both
\* have sent the same requests, slept the same durations in the same order
\* and ended with the same outcome.
C9_BothClientsSamePolicy ==
    (pc["sync"] = "done" /\ pc["async"] = "done") =>
        /\ events["sync"] = events["async"]
        /\ req_result["sync"] = req_result["async"]

\* The limit values among a request's query parameters.
LimitsSent(req) == {p[2] : p \in {q \in req.params : q[1] = "limit"}}

\* C10: the limit search_humans transmits is max(1, min(limit, 500)): 1 for
\* inputs below 1, 500 for inputs above 500, the input otherwise.
C10_SearchLimitClamped ==
    \A c \in active :
        input.op = "search_humans" =>
            \A i \in DOMAIN events[c] :
                events[c][i].type = "request" =>
                    /\ LimitsSent(events[c][i].req) =
                          {IF input.limit < 1 THEN 1
                           ELSE IF input.limit > 500 THEN 500
                           ELSE input.limit}
                    /\ LimitsSent(events[c][i].req) \subseteq 1..500

\* search_humans was called with limit 10000 and its request, carrying
\* limit 500, was sent.
C10_Witness ==
    \E c \in active :
        /\ input.op = "search_humans"
        /\ input.limit = 10000
        /\ Len(Requests(c)) >= 1
        /\ <<"limit", 500>> \in Requests(c)[1].req.params

\* C11: whichever listing operation is called (search_humans, list_bookings,
\* list_bounties, list_conversations) and whatever integer limit the caller
\* passes, every request sent carries exactly one limit, between 1 and 500.
C11_EveryLimitClamped ==
    \A c \in active :
        input.op \in LimitOps =>
            \A i \in DOMAIN events[c] :
                events[c][i].type = "request" =>
                    /\ LimitsSent(events[c][i].req) # {}
                    /\ LimitsSent(events[c][i].req) \subseteq LIMIT_MIN..LIMIT_MAX

CreateOps == {"create_booking", "create_bounty", "start_conversation"}

\* The create operation's request: a POST to the collection, whose body
\* carries no "id".
IsCreatePost(req) ==
    /\ req.method = "POST"
    /\ req.path = Path(input)
    /\ req.json.present
    /\ "id" \notin Keys(req.json.fields)

\* C12 as stated: a finished create operation (max_retries >= 0) has
\* transmitted exactly one POST, whatever the attempts were answered.
C12_CreateSendsExactlyOnePost ==
    \A c \in active :
        (input.op \in CreateOps /\ max_retries >= 0 /\ pc[c] = "done") =>
            Len(Requests(c)) = 1

\* C12, amended: a create operation sends one POST per attempt of _request:
\* one, and one more after every wait, at most max_retries + 1; every one of
\* them is the same POST to the collection, and its body carries no id.
C12_CreateSendsOnePostPerAttempt ==
    \A c \in active :
        input.op \in CreateOps =>
            /\ \A i \in DOMAIN events[c] :
                   events[c][i].type = "request" =>
                       /\ IsCreatePost(events[c][i].req)
                       /\ events[c][i].req = events[c][1].req
            /\ (max_retries >= 0 /\ pc[c] = "done") =>
                   /\ Len(Requests(c)) = Len(Sleeps(c)) + 1
                   /\ Len(Requests(c)) <= max_retries + 1

\* create_booking has ended after a retry: two POSTs were sent.
C12_Witness ==
    \E c \in active :
        /\ input.op = "create_booking"
        /\ pc[c] = "done"
        /\ Len(Requests(c)) = 2
        /\ Len(Sleeps(c)) = 1

\* The filters of the operation called: the key each is sent under, the
\* value it was called with, and whether it is a text.
FiltersOf(in) ==
    IF in.op = "search_humans"
    THEN {<<"skill", in.filters.skill, TRUE>>, <<"minRate", in.filters.min_rate, FALSE>>,
          <<"maxRate", in.filters.max_rate, FALSE>>, <<"name", in.filters.name, TRUE>>}
    ELSE IF in.op = "list_bookings"
    THEN {<<"humanId", in.filters.human_id, TRUE>>, <<"agentId", in.filters.agent_id, TRUE>>,
          <<"status", in.filters.status, TRUE>>}
    ELSE {}

\* The caller supplied a value: a rate (0 included), or a text that is not
\* empty.
Supplied(f) == f[2] # Absent /\ ~(f[3] /\ f[2] = {""})

\* C13: in every request of search_humans and list_bookings, a filter's key
\* is among the query parameters exactly when the caller supplied a value
\* for it, and then with that value unchanged (a rate of 0 included); a
\* filter without a value is not sent, neither as null nor as an empty text.
C13_FiltersSentIffSupplied ==
    \A c \in active :
        \A i \in DOMAIN events[c] :
            events[c][i].type = "request" =>
                \A f \in FiltersOf(input) :
                    LET sent == {p \in events[c][i].req.params : p[1] = f[1]}
                    IN  /\ Supplied(f) => sent = {<<f[1], v>> : v \in f[2]}
                        /\ ~Supplied(f) => sent = {}

\* search_humans was called with min_rate=0, a skill and no name, and its
\* request carries minRate=0 and the skill, and no name.
C13_Witness ==
    \E c \in active :
        /\ input.op = "search_humans"
        /\ input.filters.min_rate = {0}
        /\ input.filters.skill = {"x"}
        /\ input.filters.name = Absent
        /\ Len(Requests(c)) >= 1
        /\ <<"minRate", 0>> \in Requests(c)[1].req.params
        /\ <<"skill", "x">> \in Requests(c)[1].req.params
        /\ "name" \notin Keys(Requests(c)[1].req.params)

WriteOps == {"create_booking", "create_bounty", "accept_application", "update_bounty"}

\* The optional fields of the models the create operations serialise.
OptionalFields(op) ==
    CASE op = "create_booking" ->
            {f \in BookingCreateFields : f.alias \in {"description"}}
      [] op = "create_bounty" ->
            {f \in BountyCreateFields : f.alias \in {"estimatedHours", "skills", "location"}}
      [] OTHER -> {}

\* The caller passed a value for the key (by either of a field's names).
CallerSet(in, names) == Keys(in.kwargs) \cap names # {}

\* C14: in every request of a write operation, the JSON body has no key
\* with a null value that the caller did not set, and none of the optional
\* fields the caller left unset (description; estimatedHours, skills,
\* location).
C14_WriteBodyOmitsUnsetFields ==
    \A c \in active :
        input.op \in WriteOps =>
            \A i \in DOMAIN events[c] :
                events[c][i].type = "request" =>
                    LET body == events[c][i].req.json.fields
                    IN  /\ \A p \in body :
                               p[2] = NONE =>
                                   \E q \in input.kwargs :
                                       /\ q[2] = NONE
                                       /\ \/ q[1] = p[1]
                                          \/ \E f \in OptionalFields(input.op) :
                                                 f.name = q[1] /\ f.alias = p[1]
                        /\ \A f \in OptionalFields(input.op) :
                               ~CallerSet(input, {f.name, f.alias}) =>
                                   f.alias \notin Keys(body)

\* The body _request returned to the operation.
ReturnedBody(c) == req_result[c].value

\* All strings, or all objects.
SameShape(items) == \A i \in DOMAIN items, j \in DOMAIN items : items[i].shape = items[j].shape

\* The skills, one per item and in the items' order, named as the items.
SkillsOf(items) == [i \in DOMAIN items |-> [id |-> "", name |-> items[i].name]]

\* C15: when list_skills is answered with a well-formed list of skills, all
\* bare strings or all objects, under the key "skills" or as the bare body,
\* it returns one Skill per element, in order and with the element's name;
\* the empty list gives the empty result.
C15_ListSkillsToleratesBothShapes ==
    \A c \in active :
        (/\ input.op = "list_skills"
         /\ pc[c] = "done"
         /\ req_result[c].kind = "ok"
         /\ ReturnedBody(c).valid
         /\ \/ ReturnedBody(c).fmt = "array"
            \/ ReturnedBody(c).fmt = "object" /\ server.keyed
         /\ SameShape(server.items)) =>
            /\ result[c].kind = "ok"
            /\ result[c].entities = SkillsOf(server.items)

\* C16: search_humans returns the entities under "humans", one per element
\* and in the server's order, none dropped, merged or moved: n elements give
\* n results, the i-th with the i-th element's id and name; an empty or
\* missing list gives the empty result.
C16_SearchReturnsTheListInOrder ==
    \A c \in active :
        (/\ input.op = "search_humans"
         /\ pc[c] = "done"
         /\ req_result[c].kind = "ok"
         /\ ReturnedBody(c).fmt = "object"
         /\ ReturnedBody(c).valid
         /\ \A i \in DOMAIN server.items : ~IsStr(server.items[i])) =>
            LET humans == IF server.keyed THEN server.items ELSE <<>>
            IN  /\ result[c].kind = "ok"
                /\ Len(result[c].entities) = Len(humans)
                /\ \A i \in DOMAIN humans :
                       /\ result[c].entities[i].id = humans[i].id
                       /\ result[c].entities[i].name = humans[i].name

\* search_humans has returned two entities, h2 before h1, for the list of
\* h2 and h1.
C16_Witness ==
    \E c \in active :
        /\ input.op = "search_humans"
        /\ pc[c] = "done"
        /\ result[c].kind = "ok"
        /\ server.keyed
        /\ Len(server.items) = 2
        /\ Len(result[c].entities) = 2
        /\ server.items[1].id = "h2"
        /\ server.items[2].id = "h1"
        /\ result[c].entities[1].id = "h2"

\* C17: the default headers are Content-Type: application/json, and
\* X-API-Key with the key exactly when a (non-empty) key was given to the
\* constructor; every request of every attempt of every call carries
\* exactly these headers.
C17_SameDefaultHeadersOnEveryRequest ==
    LET expected ==
            {<<"Content-Type", "application/json">>}
            \cup (IF ctor.api_key \in {Absent, {""}} THEN {}
                  ELSE {<<"X-API-Key", k>> : k \in ctor.api_key})
    IN  /\ session.headers = expected
        /\ \A c \in active :
               \A i \in DOMAIN events[c] :
                   events[c][i].type = "request" =>
                       events[c][i].req.headers = expected

\* The second call on a client built with a key is at its second attempt:
\* both requests carry the key header.
C17_Witness ==
    \E c \in active :
        /\ ctor.api_key = {"rah_key"}
        /\ completed = 1
        /\ Len(Requests(c)) = 2
        /\ <<"X-API-Key", "rah_key">> \in Requests(c)[1].req.headers
        /\ <<"X-API-Key", "rah_key">> \in Requests(c)[2].req.headers

\* C20: whatever operations have been called and however they ended,
\* base_url, timeout, max_retries and the default headers are what the
\* constructor made of its arguments.
C20_SessionConfigurationNeverChanges ==
    /\ session = NewSession(ctor)
    /\ max_retries = ctor.max_retries
    /\ \A c \in active : pc[c] # "idle" /\ request[c] # NoRequest =>
           /\ request[c].base_url = NewSession(ctor).base_url
           /\ request[c].timeout = ctor.timeout

\* Two operations have ended and a third has ended after a retry, on a
\* client constructed with a base URL that had a trailing slash.
C20_Witness ==
    \E c \in active :
        /\ completed = 2
        /\ pc[c] = "done"
        /\ Len(Sleeps(c)) = 1
        /\ ctor.base_url = <<"u", "/">>
        /\ session.base_url = <<"u">>

Dumped == models.step \in {"dumped", "dumped_without_none"}

ExpectedValue(f, wire) ==
    IF f.alias \in Keys(wire) THEN ValueOf(wire, f.alias) ELSE f.default

\* The round trip of one JSON object gives one key per declared field,
\* whatever keys the object had, each with the field's expected value; with
\* exclude_none, the fields whose expected value is null have no key.
RoundTripOf(model, wire, dumped, exclude_none) ==
    /\ Keys(dumped) =
           {f.alias : f \in {g \in Fields(model) :
                                ~exclude_none \/ ExpectedValue(g, wire) # NONE}}
    /\ \A f \in Fields(model) :
           f.alias \in Keys(dumped) => <<f.alias, ExpectedValue(f, wire)>> \in dumped

\* The object does not validate: it lacks a required field, or has a null
\* in a field that does not take one.
Invalid(model, wire) ==
    \E f \in Fields(model) :
        \/ ExpectedValue(f, wire) = REQUIRED
        \/ ExpectedValue(f, wire) = NONE /\ f.default # NONE

RECURSIVE RunAlone(_, _, _, _, _)
RunAlone(client, retries, req, given, k) ==
    IF ~LoopHasNext(retries, k)
    THEN [events |-> <<>>, done |-> TRUE,
          result |-> RentAHumanError("Request failed after retries", 0)]
    ELSE IF k >= Len(given)
    THEN [events |-> <<>>, done |-> FALSE, result |-> NoResult]
    ELSE LET d == HandleResponse(client, given[k + 1], retries, k)
         IN  IF d.next = "sleep"
             THEN LET rest == RunAlone(client, retries, req, given, k + 1)
                  IN  [rest EXCEPT
                          !.events = <<RequestEvent(req), SleepEvent(d.ms)>> \o rest.events]
             ELSE [events |-> <<RequestEvent(req)>>, done |-> TRUE, result |-> d.result]

\* C19: of the calls in flight on one non-blocking client, however their
\* steps interleave, each sends the requests, sleeps the waits and ends
\* with the outcome it would have alone with the answers it received, and
\* its loop index counts its own attempts only.
C19_ConcurrentCallsAreIndependent ==
    \A c \in active :
        pc[c] # "idle" =>
            LET alone == RunAlone(ClientOf(c), max_retries,
                                  Send(ClientOf(c), session, request[c]),
                                  answers[c], 0)
                inflight == IF pc[c] = "waiting"
                            THEN <<RequestEvent(Send(ClientOf(c), session, request[c]))>>
                            ELSE <<>>
            IN  /\ events[c] = alone.events \o inflight
                /\ pc[c] = "done" => alone.done /\ req_result[c] = alone.result
                /\ pc[c] # "done" =>
                       /\ req_result[c] = NoResult
                       /\ alone.done => ~LoopHasNext(max_retries, attempt[c])
                /\ Len(Requests(c)) = Len(answers[c]) + Len(inflight)
                /\ attempt[c] = Len(Sleeps(c)) - (IF pc[c] = "sleeping" THEN 1 ELSE 0)

\* One call has used up its retries on two 429 answers and ended with
\* RateLimitError while the other, whose first request met a transport
\* failure, has its retry in flight and no answer to it yet.
C19_Witness ==
    /\ active = {"async", "async2"}
    /\ max_retries = 1
    /\ pc["async"] = "done"
    /\ Len(Requests("async")) = 2
    /\ req_result["async"].kind = "RateLimitError"
    /\ pc["async2"] = "waiting"
    /\ attempt["async2"] = 1
    /\ Len(Requests("async2")) = 2
    /\ Len(answers["async2"]) = 1
    /\ answers["async2"][1].kind = "transport"

\* The names of the tools in a list.
NamesOf(tools) == {tools[i].name : i \in DOMAIN tools}

DistinctNames(tools) ==
    \A i \in DOMAIN tools, j \in DOMAIN tools : tools[i].name = tools[j].name => i = j

\* What the toolkit's method returned; <<>> before it is called.
ReturnedBy(t, getter) == toolkit[t].returned[getter]

Called(t, getter) == ReturnedBy(t, getter) # <<>>

\* C21: get_tools returns 15 tools with pairwise distinct names,
\* get_search_tools 4, get_booking_tools 3 and get_bounty_tools 4; each
\* sub-toolkit's names are among get_tools' names; the sub-toolkits share no
\* name; every tool a toolkit returned is bound to that toolkit's one client.
C21_ToolkitToolSetsConsistent ==
    \A t \in Toolkits :
        /\ Called(t, "get_tools") =>
               /\ Len(ReturnedBy(t, "get_tools")) = 15
               /\ DistinctNames(ReturnedBy(t, "get_tools"))
        /\ Called(t, "get_search_tools") => Len(ReturnedBy(t, "get_search_tools")) = 4
        /\ Called(t, "get_booking_tools") => Len(ReturnedBy(t, "get_booking_tools")) = 3
        /\ Called(t, "get_bounty_tools") => Len(ReturnedBy(t, "get_bounty_tools")) = 4
        /\ \A g \in Getters :
               /\ Called(t, "get_tools") =>
                      NamesOf(ReturnedBy(t, g)) \subseteq NamesOf(ReturnedBy(t, "get_tools"))
               /\ \A i \in DOMAIN ReturnedBy(t, g) :
                      /\ ReturnedBy(t, g)[i].client = toolkit[t].client
                      /\ ReturnedBy(t, g)[i].client.of = t
        /\ \A g \in Getters \ {"get_tools"}, h \in Getters \ {"get_tools"} :
               g # h => NamesOf(ReturnedBy(t, g)) \cap NamesOf(ReturnedBy(t, h)) = {}

\* Every method of both toolkits has been called.
C21_Witness ==
    \A t \in Toolkits : \A g \in Getters : Called(t, g)

\* The answer to the call's latest attempt.
LastAnswer(c) == answers[c][Len(answers[c])]

IsRateLimited(resp) == IsStatus(resp) /\ resp.status = 429

IsErrorStatus(resp) == IsStatus(resp) /\ resp.status >= 400 /\ resp.status # 429

\* C22: when every attempt of a call is answered 429, RateLimitError is
\* raised only after max_retries + 1 requests, the call ends with it once
\* no attempt is left, its status_code is 429 and its retry_after is the
\* retry-after value of the last 429 response.
C22_AllRateLimitedFailsWithLastRetryAfter ==
    \A c \in active :
        (/\ max_retries >= 0
         /\ answers[c] # <<>>
         /\ \A i \in DOMAIN answers[c] : IsRateLimited(answers[c][i])) =>
            /\ req_result[c].kind = "RateLimitError" =>
                   /\ Len(Requests(c)) = max_retries + 1
                   /\ req_result[c].status = 429
                   /\ req_result[c].retry_after = SpecifiedRetryAfter(LastAnswer(c))
            /\ pc[c] = "done" => req_result[c].kind = "RateLimitError"
            /\ Len(answers[c]) = max_retries + 1 => pc[c] = "done"

\* The message the specification gives the error for a response with a
\* status >= 400 other than 429.
SpecifiedMessage(resp) ==
    IF resp.body.fmt = "object" /\ resp.body.error # "absent" THEN resp.body.error
    ELSE IF resp.reason # "" THEN resp.reason
    ELSE HttpMsg(resp.status)

\* C23: an attempt answered with a status >= 400 other than 429 raises
\* RentAHumanError whose message is the body's "error" field if it has one,
\* else the reason phrase if it is not empty, else "HTTP <code>", and whose
\* status_code is the status of the response.
C23_ErrorMessagePrecedence ==
    \A c \in active :
        (answers[c] # <<>> /\ IsErrorStatus(LastAnswer(c))) =>
            /\ pc[c] = "done"
            /\ req_result[c].kind = "RentAHumanError"
            /\ req_result[c].msg = SpecifiedMessage(LastAnswer(c))
            /\ req_result[c].status = LastAnswer(c).status

\* The entities the server's payload describes to the operation: every item
\* for an operation that parses a list, the first for one that parses one
\* entity.
PayloadOf(op) ==
    IF op = "list_skills" THEN SkillsOf(server.items)
    ELSE IF op \in ListOps THEN EntitiesOf(server.items)
    ELSE <<Entity(server.items[1])>>

\* The body carries the payload under the operation's key, or is the
\* payload: a bare list for an operation that parses a list, the entity's
\* object for one that parses one entity.
WellFormedBody(op, body) ==
    /\ body.valid
    /\ \A i \in DOMAIN server.items : ~IsStr(server.items[i])
    /\ \/ server.keyed /\ body.fmt = "object"
       \/ ~server.keyed /\ body.fmt = (IF op = "list_skills" \/ op \in ListOps
                                       THEN "array" ELSE "object")
    /\ op = "list_skills" \/ op \in ListOps \/ server.items # <<>>

\* C24: every operation that parses a response returns the payload found
\* under its envelope key and, when the key is absent, the payload that is
\* the entire body.
C24_EnvelopeKeyElseWholeBody ==
    \A c \in active :
        (/\ pc[c] = "done"
         /\ req_result[c].kind = "ok"
         /\ WellFormedBody(input.op, ReturnedBody(c))) =>
            /\ result[c].kind = "ok"
            /\ result[c].entities = PayloadOf(input.op)

\* Operations whose result is one or more entities with an id.
IdentifiedOps == (Ops \ {"list_skills", "get_reviews", "accept_application"})

\* C25: every entity an operation returns stands for an entity of the
\* server's payload and has that entity's id: the client never gives an
\* entity an id the payload did not carry.
C25_ReturnedIdIsTheServersId ==
    \A c \in active :
        (/\ input.op \in IdentifiedOps
         /\ pc[c] = "done"
         /\ result[c].kind = "ok") =>
            \A i \in DOMAIN result[c].entities :
                /\ i \in DOMAIN server.items
                /\ ~IsStr(server.items[i])
                /\ result[c].entities[i].id = server.items[i].id

IsTransportFailure(resp) == resp.kind = "transport"

\* C26: a call whose attempts all end in a 429 or a transport failure sends
\* at most max_retries + 1 requests whatever the mix, and the error that
\* ends it is that of the final attempt: RateLimitError when the final
\* answer is a 429, the wrapped transport error when it is a transport
\* failure.
C26_OneBudgetFinalAttemptDecides ==
    \A c \in active :
        (/\ max_retries >= 0
         /\ answers[c] # <<>>
         /\ \A i \in DOMAIN answers[c] :
                IsRateLimited(answers[c][i]) \/ IsTransportFailure(answers[c][i])) =>
            /\ Len(Requests(c)) <= max_retries + 1
            /\ pc[c] = "done" =>
                   /\ Len(Requests(c)) = max_retries + 1
                   /\ IsRateLimited(LastAnswer(c)) =>
                          req_result[c].kind = "RateLimitError"
                   /\ IsTransportFailure(LastAnswer(c)) =>
                          req_result[c] = RentAHumanError("Request failed", 0)

\* A response that is a success or an error status other than 429.
IsFinalStatus(resp) == IsStatus(resp) /\ resp.status # 429

\* C27: for max_retries >= 0, requests and waits alternate from the first
\* request on, so no wait comes before the first request and exactly one
\* between consecutive requests; a finished call has made one wait fewer
\* than requests, none after its last request; and once an attempt is
\* answered with a success or a status >= 400 other than 429, the call ends
\* with no further request or wait.
C27_WaitsBetweenRequestsOnly ==
    \A c \in active :
        max_retries >= 0 =>
            /\ \A i \in DOMAIN events[c] :
                   events[c][i].type = (IF i % 2 = 1 THEN "request" ELSE "sleep")
            /\ pc[c] = "done" => Len(Sleeps(c)) = Len(Requests(c)) - 1
            /\ \A k \in DOMAIN answers[c] :
                   IsFinalStatus(answers[c][k]) =>
                       /\ pc[c] = "done"
                       /\ Len(events[c]) = 2 * k - 1

\* C28: every attempt of a call sends the request the call built on entry:
\* the same method, URL (base URL and path), query parameters, JSON body
\* and timeout, for POST and PATCH as for GET.
C28_RetriesResendTheSameRequest ==
    \A c \in active :
        \A i \in DOMAIN Requests(c) :
            LET sent == Requests(c)[i].req
                built == Bind(session, BuildRequest(input))
            IN  /\ sent.method = built.method
                /\ sent.base_url = built.base_url
                /\ sent.path = RemoveDotSegments(ClientOf(c), built.path)
                /\ sent.params = built.params
                /\ sent.json = built.json
                /\ sent.timeout = built.timeout
                /\ sent = Requests(c)[1].req

\* A PATCH with a JSON body has been sent a second time, after a wait.
C28_Witness ==
    \E c \in active :
        /\ Len(Requests(c)) = 2
        /\ Len(Sleeps(c)) >= 1
        /\ Requests(c)[2].req.method = "PATCH"
        /\ Requests(c)[2].req.json.present
        /\ Requests(c)[2].req.json.fields # {}

\* C29: every call of _request terminates, for every max_retries and every
\* sequence of outcomes, given that each attempt and each wait completes: a
\* call that has entered the loop, or waits between two attempts, ends with
\* a return or a raise.
C29_EveryCallTerminates ==
    \A c \in Calls : (pc[c] \in {"loop", "waiting", "sleeping"}) ~> (pc[c] = "done")

\* A call has ended after using its whole budget of LiveRetries + 1
\* attempts, each but the last followed by a wait.
C29_Witness ==
    \E c \in active :
        /\ pc[c] = "done"
        /\ max_retries = LiveRetries
        /\ Len(Requests(c)) = LiveRetries + 1
        /\ Len(Sleeps(c)) = LiveRetries

\* The error of the raise that follows the loop.
PostLoopError == RentAHumanError("Request failed after retries", 0)

\* C30: with max_retries >= 0 a call that fails has sent at least one
\* request and its error was raised inside the loop, never by the raise
\* after the loop; that raise ends a call only when max_retries < 0, and
\* then no request was sent.
C30_PostLoopErrorOnlyForNegativeRetries ==
    \A c \in active :
        /\ (req_result[c] = PostLoopError) =>
               /\ max_retries < 0
               /\ events[c] = <<>>
        /\ (pc[c] = "done" /\ max_retries >= 0 /\ req_result[c].kind # "ok") =>
               /\ Len(Requests(c)) >= 1
               /\ req_result[c] # PostLoopError
        /\ (pc[c] = "done" /\ max_retries < 0) =>
               /\ req_result[c] = PostLoopError
               /\ events[c] = <<>>

\* A call with max_retries >= 1 has failed inside the loop on its last
\* attempt, a transport failure, after using every attempt.
C30_Witness ==
    \E c \in active :
        /\ pc[c] = "done"
        /\ max_retries >= 1
        /\ Len(Requests(c)) = max_retries + 1
        /\ IsTransportFailure(LastAnswer(c))
        /\ req_result[c] = RentAHumanError("Request failed", 0)

====
